---- MODULE Spec2Model ----
(***************************************************************************)
(* Provider selection and fallback of the JARVIS API:                      *)
(*   priority store      src/src/services/priorityService.js               *)
(*   orchestrator        src/src/services/aiServiceManager.js              *)
(*   provider adapter    src/src/services/BaseAIService.js, groqService.js *)
(*   retry helper        src/src/utils/helpers.js                          *)
(*                                                                         *)
(* An error message is modelled by the set of the substrings of it that    *)
(* handleError looks for (Markers); a status of 0 stands for "no error".   *)
(***************************************************************************)
EXTENDS Integers, Sequences, FiniteSets, TLC

\* ------------------------------------------------------------------------
\* Bounds
\* ------------------------------------------------------------------------
NumProviders == 2
MaxPriority == 2
MaxMarkers == 1
MaxStoreOps == 3
MaxRuntimeOps == 1
MaxTicks == 1
MaxSignals == 2
NumClients == 2
MaxRequests == 2
MaxArrivals == 4
MaxClockSteps == 3
NumCallers == 2
MaxLookupOps == 2

\* ------------------------------------------------------------------------
\* Program constants
\* ------------------------------------------------------------------------
\* serviceClasses of AIServiceManager.initializeServices, in source order
ServiceIds == <<"groq", "github", "openrouter", "gemini">>

Providers == {ServiceIds[i] : i \in 1..NumProviders}

\* the substrings BaseAIService.handleError searches an error message for
Markers == {"401", "auth", "429", "rate limit", "503", "service unavailable", "timeout"}

NoError == 0

\* the error messages a backend call can fail with
RawMessages == {m \in SUBSET Markers : Cardinality(m) <= MaxMarkers}

NoModel == "none"
DefaultModel == "model-a"

\* the model names an entry of priority.json can carry
Models == {DefaultModel, "model-b"}

\* getPriorityOrder's answer when the collection cannot be read
FallbackOrder == <<"gemini", "groq", "github", "openrouter">>

\* AIServiceManager.CACHE_TTL of the caching manager, in milliseconds
CACHE_TTL == 30000

\* windowMs of the rateLimiter the server installs, in milliseconds
WINDOW_MS == 60000

\* validateChatRequest: the longest message accepted
MAX_MESSAGE_LENGTH == 50000

\* CONFIG.AI, the temperatures in tenths
DEFAULT_TEMPERATURE == 7
DEFAULT_MAX_TOKENS == 1000
MIN_TEMPERATURE == 0
MAX_TEMPERATURE == 20
MIN_TOKENS == 1
MAX_TOKENS == 4000

\* the key length that tells a credential from a placeholder
MinKeyLength == 10

\* the length of CONFIG.PROVIDERS.<ID>.keyPrefix
keyPrefixLength ==
    [p \in {"groq", "github", "openrouter", "gemini"} |->
        IF p = "groq" THEN Len("gsk_")
        ELSE IF p = "github" THEN Len("github_pat_")
        ELSE IF p = "openrouter" THEN Len("sk-or-v1-")
        ELSE Len("AIzaSy")]

\* ------------------------------------------------------------------------
\* State
\* ------------------------------------------------------------------------
VARIABLES
    production,        \* process.env.NODE_ENV === 'production'
    keyValue,          \* per adapter: this.apiKey, the credential read in the constructor
    apiKey,            \* per adapter: hasApiKey() of the key read in the constructor
    file,              \* priority.json: sequence of provider entries (when fileKind = "ok")
    fileKind,          \* priority.json: "ok", "missing", "unparsable" or "noProviders"
    priorityConfig,    \* priorityService's cached collection (when configKind = "loaded")
    configKind,        \* priorityService's cache: "loaded", "null" or "malformed"
    lastUpdated,       \* the lastUpdated stamp of the cached object (cache) and of the
                       \*      object in priority.json (file); NoStamp when there is none
    isInitialized,     \* per adapter: BaseAIService.isInitialized
    currentModel,      \* per adapter: BaseAIService.currentModel (NoModel = null)
    cachingManager,    \* the manager is the build that caches getAvailableServices
    availableServicesCache,     \* that manager's cached candidate list
    availableServicesCacheTime, \* Date.now() when the list was cached
    now,               \* Date.now()
    pc,                \* position of the request in generateResponse
    availableServices, \* generateResponse's local candidate list (ids)
    idx,               \* index of the for-loop over availableServices
    attempts,          \* generateResponse's local counter
    lastError,         \* status of generateResponse's lastError (NoError = null)
    retries,           \* retryWithBackoff's local counter
    usedModel,         \* requestOptions.model of the adapter call of this iteration
    inFlight,          \* backend calls of this request awaiting an answer, per provider
    attempted,         \* log: ids on which service.generateResponse was invoked
    calls,             \* log: backend calls (makeRequest) per provider in this request
    configAtSelect,    \* log: the collection in the store when this request selected
    kindAtSelect,      \* log: "loaded", "loadable" or "unloadable" store at selection
    opsAtSelect,       \* log: opsLeft when this request selected
    listAge,           \* log: age of the cached list this request took (Fresh = none)
    outcome,           \* log: per provider, what the orchestrator saw of it (Untried,
                       \*      Succeeded, or the status of the error; 500 when it has none)
    adapterStatus,     \* log: status the adapter gave the latest failed call, per provider
    result,            \* value returned by generateResponse
    thrown,            \* error thrown by generateResponse
    lastOp,            \* log: the latest operation on the priority store
    written,           \* log: the latest successful updateProviderPriority
    opsLeft,           \* store operations and file edits still to come in this run
    failure,           \* a backend failure: what it was (cause) and its error message
    classified,        \* status of the error that failure leaves makeRequest with
    rethrown,          \* status of the error it leaves BaseAIService.generateResponse with
    validatorBuild,    \* which chatRequestValidator the server is built with
    limiterBuild,      \* which rateLimiter the server is built with
    requests,          \* rateLimiter's map: per client, the timestamps it keeps
    rateLimitStore,    \* rateLimiter's map: per client, a count and a reset time
    admitted,          \* log: per client, the times at which rateLimiter called next()
    arrivals,          \* log: the number of HTTP requests received
    http,              \* the HTTP request being handled, and its response
    abandoned,         \* the caller of the request in progress has disconnected
    callsAtAbandon,    \* log: backend calls the request had started when it did
    retryBuild,        \* which retryWithBackoff the adapters are built with
    waits,             \* log: per provider, the waits of its retry loop (status of
                       \*      the failure waited after, delay in ms)
    createClientThrows, \* per provider: the constructor of its backend client throws
    client,            \* per provider: this.client of its adapter (NoClient = null)
    built,             \* log: per provider, the clients constructed for its adapter
    caller,            \* per caller of an adapter's generateResponse: the adapter and
                       \*      how far the call has got with initialize
    settings           \* priority.json: the flags of its settings object

vars == <<production, keyValue, apiKey, file, fileKind, priorityConfig, configKind, lastUpdated,
          isInitialized,
          currentModel, cachingManager, availableServicesCache,
          availableServicesCacheTime, now, pc, availableServices, idx, attempts,
          lastError, retries, usedModel, inFlight, attempted, calls, configAtSelect,
          kindAtSelect, opsAtSelect, listAge, outcome, adapterStatus, result, thrown,
          lastOp, written, opsLeft, failure, classified, rethrown, validatorBuild,
          limiterBuild, requests, rateLimitStore, admitted, arrivals, http, abandoned,
          callsAtAbandon, retryBuild, waits, createClientThrows, client, built,
          caller, settings>>

envVars == <<production, keyValue, apiKey, cachingManager>>
storeVars == <<file, fileKind, priorityConfig, configKind, lastUpdated>>
adapterVars == <<isInitialized, currentModel>>
cacheVars == <<availableServicesCache, availableServicesCacheTime>>
reqVars == <<pc, availableServices, idx, attempts, lastError, retries, usedModel,
             inFlight, attempted, calls, configAtSelect, kindAtSelect, opsAtSelect,
             listAge, outcome, adapterStatus, result, thrown>>
logVars == <<lastOp, written, opsLeft>>
classifyVars == <<failure, classified, rethrown>>
frontVars == <<validatorBuild, limiterBuild, requests, rateLimitStore, admitted,
               arrivals, http>>
abandonVars == <<abandoned, callsAtAbandon>>
backoffVars == <<retryBuild, waits>>
clientVars == <<createClientThrows, client, built, caller>>
settingVars == <<settings>>
unitVars == <<backoffVars, clientVars, settingVars>>
sideVars == <<classifyVars, frontVars, abandonVars, unitVars>>

NoResult == [kind |-> "none"]
NoThrow == [kind |-> "none", status |-> NoError]
Fresh == 0 - 1
Untried == 0 - 1
Succeeded == NoError
NoCache == [set |-> FALSE, list |-> <<>>]
NoEntry == [id |-> "none", priority |-> 0, enabled |-> FALSE, model |-> NoModel]
NoOp == [op |-> "none", ok |-> TRUE, error |-> "none", id |-> "none", entry |-> NoEntry,
         old |-> NoEntry, model |-> NoModel, yield |-> <<>>, repeated |-> FALSE,
         prevYield |-> <<>>]
NoWrite == [id |-> "none", priority |-> 0]
NoStamp == 0

\* ------------------------------------------------------------------------
\* Priority store (priorityService.js)
\* ------------------------------------------------------------------------
\* Array.prototype.sort((a, b) => a.priority - b.priority): stable insertion
RECURSIVE InsertByPriority(_, _)
InsertByPriority(x, s) ==
    IF s = <<>> THEN <<x>>
    ELSE IF Head(s).priority <= x.priority
         THEN <<Head(s)>> \o InsertByPriority(x, Tail(s))
         ELSE <<x>> \o s

RECURSIVE SortByPriority(_)
SortByPriority(s) ==
    IF s = <<>> THEN <<>>
    ELSE InsertByPriority(s[Len(s)], SortByPriority(SubSeq(s, 1, Len(s) - 1)))

IsEnabled(p) == p.enabled

\* mutant: the enabled entries in file order, without the sort
getOrderedProviders_unsorted(config) == SelectSeq(config, IsEnabled)

getOrderedProviders(config) == SortByPriority(SelectSeq(config, IsEnabled))

\* mutant: the ids of all entries in priority order, the disabled included
getPriorityOrder_unfiltered(config) ==
    [i \in 1..Len(config) |-> SortByPriority(config)[i].id]

getPriorityOrder(config) ==
    [i \in 1..Len(getOrderedProviders(config)) |-> getOrderedProviders(config)[i].id]

IndexOfId(config, id) ==
    IF \E i \in 1..Len(config) : config[i].id = id
    THEN CHOOSE i \in 1..Len(config) :
            config[i].id = id /\ \A j \in 1..(i - 1) : config[j].id # id
    ELSE 0

\* The state of the module variable priorityConfig: kind "loaded" with the
\* providers array, "null", or "malformed" (an object without a providers
\* array); ok tells whether the operation that produced it returned.
StoreState(ok, kind, config) == [ok |-> ok, configKind |-> kind, config |-> config]

\* mutant: the parsed object is returned without the check for its providers
loadPriorityConfig_of_unchecked(kind, data, oldKind, oldConfig) ==
    IF kind = "ok" THEN StoreState(TRUE, "loaded", data)
    ELSE IF kind = "noProviders" THEN StoreState(TRUE, "malformed", <<>>)
    ELSE StoreState(FALSE, oldKind, oldConfig)

\* loadPriorityConfig() on the persisted content, with the cache as given:
\* a missing file throws before any assignment, so does JSON.parse of text
\* that is not JSON; parsed JSON is assigned to priorityConfig and only then
\* checked for its providers array
loadPriorityConfig_of(kind, data, oldKind, oldConfig) ==
    IF kind = "ok" THEN StoreState(TRUE, "loaded", data)
    ELSE IF kind = "noProviders" THEN StoreState(FALSE, "malformed", <<>>)
    ELSE StoreState(FALSE, oldKind, oldConfig)

\* `priorityConfig || loadPriorityConfig()` at the head of every reader
cachedOrLoad(kind, data, oldKind, oldConfig) ==
    IF oldKind # "null" THEN StoreState(TRUE, oldKind, oldConfig)
    ELSE loadPriorityConfig_of(kind, data, oldKind, oldConfig)

\* lastUpdated after loadPriorityConfig(): the stamp of the parsed object
\* when one was assigned to priorityConfig
stampAfterLoad ==
    IF fileKind \in {"ok", "noProviders"}
    THEN [lastUpdated EXCEPT !.cache = lastUpdated.file]
    ELSE lastUpdated

\* lastUpdated after `priorityConfig || loadPriorityConfig()`
stampAfterCachedOrLoad ==
    IF configKind # "null" THEN lastUpdated ELSE stampAfterLoad

\* lastUpdated after reloadPriorityConfig(): the cache is cleared first
stampAfterReload ==
    [lastUpdated EXCEPT !.cache = IF fileKind \in {"ok", "noProviders"}
                                  THEN lastUpdated.file ELSE NoStamp]

\* new Date().toISOString() at an update: later than every stamp so far
newStamp == 1 + (IF lastUpdated.cache > lastUpdated.file THEN lastUpdated.cache
                 ELSE lastUpdated.file)

\* getPriorityOrder() on the outcome of cachedOrLoad: the catch answers
\* with the fallback order when the load threw or the object has no
\* providers array to filter
priorityOrderOf(c) ==
    IF c.configKind = "loaded" THEN getPriorityOrder(c.config) ELSE FallbackOrder

\* mutant: the collection is not saved
writeFileSync_skipped(old, config) == old

\* fs.writeFileSync(PRIORITY_FILE, JSON.stringify(config, null, 2)): the
\* content of priority.json after a write that succeeds
writeFileSync(old, config) == config

\* mutant: reload hands back the collection that was cached before it
reloadReturn_previous(old, loaded) == old

\* what reloadPriorityConfig returns: the outcome of loadPriorityConfig
reloadReturn(old, loaded) == loaded

\* the ordered enabled ids of a returned collection; a throw returns none
YieldOf(r) == IF r.ok /\ r.configKind = "loaded" THEN getPriorityOrder(r.config)
              ELSE <<"threw">>

\* ------------------------------------------------------------------------
\* Adapter error classification (BaseAIService.handleError)
\* ------------------------------------------------------------------------
ServiceError(status, msg) == [status |-> status, msg |-> msg]

handleError(msg) ==
    IF "401" \in msg \/ "auth" \in msg
    THEN \* "Authentication failed for <name>. Please check your API key."
         ServiceError(401, {})
    ELSE IF "429" \in msg \/ "rate limit" \in msg
    THEN \* "Rate limit exceeded for <name>. Please try again later."
         ServiceError(429, {})
    ELSE IF "503" \in msg \/ "service unavailable" \in msg
    THEN \* "<name> service is temporarily unavailable. Please try again ..."
         ServiceError(503, {})
    ELSE IF "timeout" \in msg
    THEN \* "Request timeout for <name>. Please try again."
         ServiceError(408, {"timeout"})
    ELSE \* "<name> request failed: <message>"
         ServiceError(500, msg)

\* what a failed makeRequest throws: the adapter's catch calls handleError
makeRequestError(raw) == handleError(raw)

\* mutant: the error that left retryWithBackoff is rethrown as it is
generateResponseError_rethrown(e) == e

\* what BaseAIService.generateResponse throws for the error that left
\* retryWithBackoff: its catch calls handleError on it again
generateResponseError(e) == handleError(e.msg)

\* BaseAIService.generateResponse: maxRetries passed to retryWithBackoff
maxRetries == IF production THEN 1 ELSE 2

\* mutant: only a rate limit ends the retry loop at once
noRetry_rateLimitOnly(status) == status = 429

\* mutant: only an authentication error ends the retry loop at once
noRetry_authOnly(status) == status = 401

\* retryWithBackoff's catch: TRUE when the error is rethrown at once
noRetry(status) == status = 401 \/ status = 429

\* mutant: the loop gives up one failure later
retriesExhausted_oneMore(r) == r > maxRetries

\* retryWithBackoff's catch: `if (retries >= maxRetries) break`
retriesExhausted(r) == r >= maxRetries

\* ------------------------------------------------------------------------
\* Initial state: the process has started, priorityService has loaded
\* priority.json (loadPriorityConfig on module import), the manager has
\* constructed one adapter per service class, no request has been made.
\* ------------------------------------------------------------------------
Entries ==
    [id : Providers, priority : 1..MaxPriority, enabled : BOOLEAN, model : {DefaultModel}]

WellFormedFiles ==
    {f \in [1..NumProviders -> Entries] : \A i \in 1..NumProviders : f[i].id = ServiceIds[i]}

\* the priority.json of the README: every provider enabled, priorities in
\* file order
DefaultFile ==
    [i \in 1..NumProviders |->
        [id |-> ServiceIds[i], priority |-> IF i <= MaxPriority THEN i ELSE MaxPriority,
         enabled |-> TRUE, model |-> DefaultModel]]

\* every priority.json with one entry per provider, in any order
PermutedFiles ==
    {f \in [1..NumProviders -> Entries] :
        \A i, j \in 1..NumProviders : i # j => f[i].id # f[j].id}

\* process.env[envKey]: undefined or empty (NoKey), or a string that has the
\* provider's prefix or not, of some length
NoKey == [set |-> FALSE, prefix |-> FALSE, length |-> 0]

KeyValues(p) ==
    {NoKey} \cup
    {k \in [set : {TRUE}, prefix : BOOLEAN,
            length : {keyPrefixLength[p], MinKeyLength, MinKeyLength + 1}] :
        k.prefix => k.length >= keyPrefixLength[p]}

\* helpers.js validateApiKey(key, prefix): a non-empty string that starts
\* with the prefix
validateApiKey(key) == key.set /\ key.prefix

\* BaseAIService.isAvailable / hasApiKey of a credential
isAvailable(key) == key.set /\ validateApiKey(key)

\* a credential as the README asks for it: prefix and a full-length secret
UsableKey == [set |-> TRUE, prefix |-> TRUE, length |-> MinKeyLength + 1]

\* the adapters are constructed: availability as given (keys), the
\* credentials being usable or absent
InitKeysFrom(keys) ==
    /\ apiKey \in keys
    /\ keyValue = [p \in Providers |-> IF apiKey[p] THEN UsableKey ELSE NoKey]

\* the adapters are constructed with any credentials
InitKeyValues ==
    /\ keyValue \in {kv \in [Providers -> UNION {KeyValues(p) : p \in Providers}] :
                        \A p \in Providers : kv[p] \in KeyValues(p)}
    /\ apiKey = [p \in Providers |-> isAvailable(keyValue[p])]

InitCore(files, managers, ops) ==
    /\ production \in BOOLEAN
    /\ file \in files
    /\ fileKind = "ok"
    /\ priorityConfig = file
    /\ configKind = "loaded"
    /\ lastUpdated = [cache |-> NoStamp, file |-> NoStamp]
    /\ isInitialized = [p \in Providers |-> FALSE]
    /\ currentModel = [p \in Providers |-> NoModel]
    /\ cachingManager \in managers
    /\ availableServicesCache = NoCache
    /\ availableServicesCacheTime = 0
    /\ now = 0
    /\ pc = "idle"
    /\ availableServices = <<>>
    /\ idx = 0
    /\ attempts = 0
    /\ lastError = NoError
    /\ retries = 0
    /\ usedModel = NoModel
    /\ inFlight = [p \in Providers |-> 0]
    /\ attempted = <<>>
    /\ calls = [p \in Providers |-> 0]
    /\ configAtSelect = file
    /\ kindAtSelect = "loaded"
    /\ opsAtSelect = ops
    /\ listAge = Fresh
    /\ outcome = [p \in Providers |-> Untried]
    /\ adapterStatus = [p \in Providers |-> NoError]
    /\ result = NoResult
    /\ thrown = NoThrow
    /\ lastOp = NoOp
    /\ written = NoWrite
    /\ opsLeft = ops
    /\ abandoned = FALSE
    /\ callsAtAbandon = 0

\* no backend failure is being followed through the adapter
NoFailure == [cause |-> "none", msg |-> {}]

ClassifyAtRest ==
    /\ failure = NoFailure
    /\ classified = NoError
    /\ rethrown = NoError

Clients == 1..NumClients

\* a value of a request field: undefined, null or a number
Undefined == [kind |-> "undefined", value |-> 0]
Null == [kind |-> "null", value |-> 0]
Num(n) == [kind |-> "number", value |-> n]

NoMessage == [type |-> "undefined", length |-> 0, trimmed |-> 0, script |-> 0]
NoOptions == [temperature |-> Undefined, maxTokens |-> Undefined]
NoExchange == [stage |-> "none", client |-> 0, status |-> NoError, message |-> NoMessage,
               body |-> NoOptions, handed |-> NoMessage, sent |-> NoOptions]
NoWindow == [set |-> FALSE, count |-> 0, resetTime |-> 0]

\* the server has started and has received no request
FrontStarted(validators, limiters) ==
    /\ validatorBuild \in validators
    /\ limiterBuild \in limiters
    /\ requests = [c \in Clients |-> <<>>]
    /\ rateLimitStore = [c \in Clients |-> NoWindow]
    /\ admitted = [c \in Clients |-> <<>>]
    /\ arrivals = 0
    /\ http = NoExchange

FrontAtRest == FrontStarted({"validateChatRequest"}, {"log"})

\* no retry loop is being followed
BackoffAtRest ==
    /\ retryBuild = "helpers"
    /\ waits = [p \in Providers |-> <<>>]

\* every backend client can be constructed
ClientsConstructible == createClientThrows = [p \in Providers |-> FALSE]

Callers == 1..NumCallers

NoClient == 0
NoCall == [p |-> "none", at |-> "none"]

\* no client has been constructed and no caller is followed through initialize
NoClientBuilt ==
    /\ client = [p \in Providers |-> NoClient]
    /\ built = [p \in Providers |-> 0]
    /\ caller = [r \in Callers |-> NoCall]

\* a flag of the settings object in priority.json: true, false, or absent
Flag(b) == [kind |-> "boolean", value |-> b]

Flags == {Undefined, Flag(TRUE), Flag(FALSE)}

StoredSettings ==
    {[noTimeoutRestrictions |-> t, noTokenLimits |-> n, allowCompleteResponse |-> t] :
        t, n \in Flags}

\* the documented priority.json has no settings object: every flag is absent
DocumentedSettings ==
    settings = [noTimeoutRestrictions |-> Undefined, noTokenLimits |-> Undefined,
                allowCompleteResponse |-> Undefined]

UnitsAtRest == BackoffAtRest /\ ClientsConstructible /\ NoClientBuilt /\ DocumentedSettings

InitFrom(files, keys, managers, ops) ==
    /\ InitKeysFrom(keys)
    /\ InitCore(files, managers, ops)
    /\ ClassifyAtRest
    /\ FrontAtRest
    /\ UnitsAtRest

Init == InitFrom(WellFormedFiles, [Providers -> BOOLEAN], {FALSE}, 0)

\* ------------------------------------------------------------------------
\* Orchestrator (aiServiceManager.js)
\* ------------------------------------------------------------------------
hasApiKey(p) == apiKey[p]

\* mutant: the credential check is left out of the filter
IsCandidate_anyService(id) == id \in Providers

\* mutant: a provider that failed in the previous request is passed over
IsCandidate_skipsFailed(id) ==
    id \in Providers /\ hasApiKey(id) /\ adapterStatus[id] = NoError

IsCandidate(id) == id \in Providers /\ hasApiKey(id)

getAvailableServices(config) == SelectSeq(getPriorityOrder(config), IsCandidate)

\* mutant: attempts is incremented after the call instead of before it
GenerationResult_countAfterCall(provider, n) ==
    [kind |-> "success", provider |-> provider, fallbackUsed |-> n > 1,
     totalAttempts |-> n - 1]

\* mutant: fallbackUsed compares with 0 instead of 1
GenerationResult_fallbackFromFirst(provider, n) ==
    [kind |-> "success", provider |-> provider, fallbackUsed |-> n > 0,
     totalAttempts |-> n]

\* the object generateResponse returns on success
GenerationResult(provider, n) ==
    [kind |-> "success", provider |-> provider, fallbackUsed |-> n > 1, totalAttempts |-> n]

\* the two throws that end generateResponse after the loop; the caching
\* manager gives every failure but a 503 the status 500
AggregateError(status) ==
    IF status = 503
    THEN [kind |-> "TemporarilyUnavailable", status |-> 503]
    ELSE [kind |-> "AllFailed",
          status |-> IF status # NoError /\ ~cachingManager THEN status ELSE 500]

\* what the orchestrator saw of a provider whose adapter threw
Observed(status) == IF status = NoError THEN 500 ELSE status

\* mutant: the catch block leaves the loop on every error
CatchProviderError_breakAlways(status) ==
    /\ lastError' = status
    /\ outcome' = [outcome EXCEPT ![availableServices[idx]] = Observed(status)]
    /\ pc' = "failed"
    /\ thrown' = AggregateError(status)
    /\ idx' = idx

\* mutant: an outer loop starts over with the first candidate when the last
\* one has failed
CatchProviderError_startsOver(status) ==
    /\ lastError' = status
    /\ outcome' = [outcome EXCEPT ![availableServices[idx]] = Observed(status)]
    /\ IF status = 401
       THEN /\ pc' = "failed"
            /\ thrown' = AggregateError(status)
            /\ idx' = idx
       ELSE /\ pc' = "attempting"
            /\ thrown' = thrown
            /\ idx' = IF idx = Len(availableServices) THEN 1 ELSE idx + 1

\* the catch block of the for-loop, for an error of the given status
\* (NoError: an Error without status), and what follows it: break on 401,
\* otherwise the next iteration, or the throw after the loop when there is
\* none
CatchProviderError(status) ==
    /\ lastError' = status
    /\ outcome' = [outcome EXCEPT ![availableServices[idx]] = Observed(status)]
    /\ IF status = 401 \/ idx = Len(availableServices)
       THEN /\ pc' = "failed"
            /\ thrown' = AggregateError(status)
            /\ idx' = idx
       ELSE /\ pc' = "attempting"
            /\ thrown' = thrown
            /\ idx' = idx + 1

\* mutant: the cached list never expires
cacheIsValid_noExpiry ==
    cachingManager /\ availableServicesCache.set

\* the caching manager's test at the head of getAvailableServices
cacheIsValid ==
    /\ cachingManager
    /\ availableServicesCache.set
    /\ now - availableServicesCacheTime < CACHE_TTL

\* entry of generateResponse up to the for-loop: getAvailableServices (from
\* the cache or through getPriorityOrder), the empty check,
\* getPrioritySettings
generateResponse ==
    /\ pc \in {"idle", "done", "failed"}
    /\ LET hit == cacheIsValid
           c == cachedOrLoad(fileKind, file, configKind, priorityConfig)
           list == IF hit THEN availableServicesCache.list
                   ELSE IF c.configKind = "loaded" THEN getAvailableServices(c.config)
                   ELSE SelectSeq(priorityOrderOf(c), IsCandidate)
           \* the store after getAvailableServices
           s1 == IF hit THEN StoreState(TRUE, configKind, priorityConfig) ELSE c
           \* the store after getPrioritySettings, which loads when nothing is cached
           s2 == cachedOrLoad(fileKind, file, s1.configKind, s1.config)
       IN
       /\ availableServices' = list
       /\ listAge' = IF hit THEN now - availableServicesCacheTime ELSE Fresh
       /\ IF cachingManager /\ ~hit
          THEN /\ availableServicesCache' = [set |-> TRUE, list |-> list]
               /\ availableServicesCacheTime' = now
          ELSE UNCHANGED cacheVars
       /\ kindAtSelect' = IF configKind = "loaded" THEN "loaded"
                          ELSE IF configKind = "null" /\ fileKind = "ok" THEN "loadable"
                          ELSE "unloadable"
       /\ IF Len(list) = 0
          THEN /\ pc' = "failed"
               /\ thrown' = [kind |-> "NoServices", status |-> 500]
               /\ idx' = 0
               /\ configKind' = s1.configKind
               /\ priorityConfig' = s1.config
               /\ lastUpdated' = IF hit THEN lastUpdated ELSE stampAfterCachedOrLoad
               /\ configAtSelect' = s1.config
          ELSE /\ configKind' = s2.configKind
               /\ priorityConfig' = s2.config
               /\ lastUpdated' = stampAfterCachedOrLoad
               /\ configAtSelect' = s2.config
               /\ IF s2.ok
                  THEN /\ pc' = "attempting"
                       /\ thrown' = NoThrow
                       /\ idx' = 1
                  ELSE \* getPrioritySettings throws the load error
                       /\ pc' = "failed"
                       /\ thrown' = [kind |-> "ConfigError", status |-> NoError]
                       /\ idx' = 0
    /\ opsAtSelect' = opsLeft
    /\ attempted' = <<>>
    /\ calls' = [p \in Providers |-> 0]
    /\ inFlight' = [p \in Providers |-> 0]
    /\ outcome' = [p \in Providers |-> Untried]
    /\ adapterStatus' = [p \in Providers |-> NoError]
    /\ usedModel' = NoModel
    /\ result' = NoResult
    /\ lastError' = NoError
    /\ attempts' = 0
    /\ retries' = 0
    /\ abandoned' = FALSE
    /\ callsAtAbandon' = 0
    /\ UNCHANGED <<envVars, classifyVars, frontVars, unitVars, file, fileKind, adapterVars, now,
                   logVars>>

\* BaseAIService.getCurrentModel of adapter p: the cached model, or (after
\* reloadPriorityConfig unless in production) getProviderModel(id); store is
\* what it leaves in priorityService's cache
getCurrentModel(p) ==
    IF currentModel[p] # NoModel
    THEN [threw |-> FALSE, model |-> currentModel[p],
          store |-> StoreState(TRUE, configKind, priorityConfig)]
    ELSE LET s == IF production
                  THEN cachedOrLoad(fileKind, file, configKind, priorityConfig)
                  ELSE loadPriorityConfig_of(fileKind, file, "null", <<>>)
         IN  IF s.configKind # "loaded" \/ IndexOfId(s.config, p) = 0
             THEN [threw |-> TRUE, model |-> NoModel, store |-> s]
             ELSE [threw |-> FALSE, model |-> s.config[IndexOfId(s.config, p)].model,
                   store |-> s]

\* lastUpdated after getCurrentModel of adapter p
getCurrentModelStamp(p) ==
    IF currentModel[p] # NoModel THEN lastUpdated
    ELSE IF production THEN stampAfterCachedOrLoad
    ELSE stampAfterReload

\* mutant: an error of createClient is swallowed
initializeThrows_availabilityOnly(p) == ~isInitialized[p] /\ ~hasApiKey(p)

\* BaseAIService.generateResponse -> initialize of adapter p throws: the
\* adapter is not initialized yet and either isAvailable() is false or
\* createClient throws
initializeThrows(p) == ~isInitialized[p] /\ (~hasApiKey(p) \/ createClientThrows[p])

\* the status of what initialize throws: ServiceError(message, id) has the
\* default status 500, the error of createClient has none
initializeError(p) == IF ~hasApiKey(p) THEN 500 ELSE NoError

\* mutant: the loop does not await the adapter call before it goes on
iterationStarts_noAwait == pc \in {"attempting", "inflight"}

\* the for-loop is at the head of an iteration: the previous one was awaited
iterationStarts == pc = "attempting"

\* mutant: each iteration asks the store again for the i-th candidate
candidateAt_reread(i) ==
    LET live == SelectSeq(priorityOrderOf(StoreState(TRUE, configKind, priorityConfig)),
                          IsCandidate)
    IN  IF i <= Len(live) THEN live[i] ELSE availableServices[i]

\* serviceInfo of the i-th iteration of `for (const serviceInfo of availableServices)`
candidateAt(i) == availableServices[i]

\* one iteration of the for-loop up to the first await of a backend call:
\* attempts++, service.generateResponse -> initialize, getCurrentModel,
\* retryWithBackoff's first fn()
AttemptProvider ==
    /\ iterationStarts
    /\ LET p == candidateAt(idx)
           m == getCurrentModel(p)
       IN
       /\ attempts' = attempts + 1
       /\ attempted' = Append(attempted, p)
       /\ IF initializeThrows(p)
          THEN /\ CatchProviderError(initializeError(p))
               /\ UNCHANGED <<priorityConfig, configKind, lastUpdated, adapterVars, retries, calls,
                              inFlight, usedModel>>
          ELSE /\ isInitialized' = [isInitialized EXCEPT ![p] = TRUE]
               /\ priorityConfig' = m.store.config
               /\ lastUpdated' = getCurrentModelStamp(p)
               /\ configKind' = m.store.configKind
               /\ IF m.threw
                  THEN \* getCurrentModel rethrows an Error without status
                       /\ CatchProviderError(NoError)
                       /\ UNCHANGED <<currentModel, retries, calls, inFlight, usedModel>>
                  ELSE /\ currentModel' = [currentModel EXCEPT ![p] = m.model]
                       /\ usedModel' = m.model
                       /\ retries' = 0
                       /\ calls' = [calls EXCEPT ![p] = @ + 1]
                       /\ inFlight' = [inFlight EXCEPT ![p] = @ + 1]
                       /\ pc' = "inflight"
                       /\ UNCHANGED <<idx, lastError, thrown, outcome>>
    /\ UNCHANGED <<envVars, sideVars, file, fileKind, cacheVars, now, availableServices,
                   configAtSelect, kindAtSelect, opsAtSelect, listAge, adapterStatus,
                   result, logVars>>

\* the backend answers the call in flight with a completion
makeRequestSucceeds ==
    /\ pc = "inflight"
    /\ pc' = "done"
    /\ result' = GenerationResult(availableServices[idx], attempts)
    /\ inFlight' = [inFlight EXCEPT ![availableServices[idx]] = @ - 1]
    /\ outcome' = [outcome EXCEPT ![availableServices[idx]] = Succeeded]
    /\ UNCHANGED <<envVars, sideVars, storeVars, adapterVars, cacheVars, now, availableServices,
                   idx, attempts, lastError, retries, usedModel, attempted, calls,
                   configAtSelect, kindAtSelect, opsAtSelect, listAge, adapterStatus,
                   thrown, logVars>>

\* the backend call in flight fails with an error whose message is raw
makeRequestFails ==
    /\ pc = "inflight"
    /\ \E raw \in RawMessages :
        LET p == availableServices[idx]
            e == makeRequestError(raw)
        IN  /\ adapterStatus' = [adapterStatus EXCEPT ![p] = e.status]
            /\ inFlight' = [inFlight EXCEPT ![p] = @ - 1]
            /\ IF noRetry(e.status) \/ retriesExhausted(retries)
               THEN /\ CatchProviderError(generateResponseError(e).status)
                    /\ UNCHANGED retries
               ELSE /\ pc' = "backoff"
                    /\ UNCHANGED <<idx, lastError, thrown, retries, outcome>>
    /\ UNCHANGED <<envVars, sideVars, storeVars, adapterVars, cacheVars, now, availableServices,
                   attempts, usedModel, attempted, calls, configAtSelect, kindAtSelect,
                   opsAtSelect, listAge, result, logVars>>

\* retryWithBackoff: the delay has elapsed, retries++, next fn()
backoffElapsed ==
    /\ pc = "backoff"
    /\ retries' = retries + 1
    /\ calls' = [calls EXCEPT ![availableServices[idx]] = @ + 1]
    /\ inFlight' = [inFlight EXCEPT ![availableServices[idx]] = @ + 1]
    /\ pc' = "inflight"
    /\ UNCHANGED <<envVars, sideVars, storeVars, adapterVars, cacheVars, now, availableServices,
                   idx, attempts, lastError, usedModel, attempted, configAtSelect,
                   kindAtSelect, opsAtSelect, listAge, outcome, adapterStatus, result,
                   thrown, logVars>>

Next ==
    \/ generateResponse
    \/ AttemptProvider
    \/ makeRequestSucceeds
    \/ makeRequestFails
    \/ backoffElapsed

Spec == Init /\ [][Next]_vars

\* ------------------------------------------------------------------------
\* Operations on the priority store (priorityService.js) and on its file
\* ------------------------------------------------------------------------
\* an id that no entry of priority.json has
AbsentId == "unlisted"

\* the provider ids the operations of the store are called with
RequestedIds == Providers \cup {AbsentId}

\* mutant: a provider that is not found is answered with the first entry
findProvider_firstWhenAbsent(c, id) ==
    IF ~c.ok THEN [ok |-> FALSE, error |-> "load", index |-> 0]
    ELSE IF c.configKind # "loaded" THEN [ok |-> FALSE, error |-> "type", index |-> 0]
    ELSE IF IndexOfId(c.config, id) = 0 THEN [ok |-> TRUE, error |-> "none", index |-> 1]
    ELSE [ok |-> TRUE, error |-> "none", index |-> IndexOfId(c.config, id)]

\* `const config = priorityConfig || loadPriorityConfig()` with outcome c, then
\* config.providers.find(p => p.id === providerId) and the throw when it
\* finds nothing: the load may have thrown ("load"), the object may have no
\* providers array to search ("type"), or no entry has the id ("notFound")
findProvider(c, id) ==
    IF ~c.ok THEN [ok |-> FALSE, error |-> "load", index |-> 0]
    ELSE IF c.configKind # "loaded" THEN [ok |-> FALSE, error |-> "type", index |-> 0]
    ELSE IF IndexOfId(c.config, id) = 0 THEN [ok |-> FALSE, error |-> "notFound", index |-> 0]
    ELSE [ok |-> TRUE, error |-> "none", index |-> IndexOfId(c.config, id)]

\* mutant: an update gives the new priority to every entry
setField_everyEntry(config, i, op, value) ==
    IF op = "updateProviderPriority"
    THEN [j \in DOMAIN config |-> [config[j] EXCEPT !.priority = value]]
    ELSE [config EXCEPT ![i].enabled = value]

\* `provider.priority = newPriority` / `provider.enabled = enabled` on the
\* entry found at index i
setField(config, i, op, value) ==
    IF op = "updateProviderPriority"
    THEN [config EXCEPT ![i].priority = value]
    ELSE [config EXCEPT ![i].enabled = value]

\* the common body of updateProviderPriority and toggleProvider: the entry
\* is changed in the cached object itself, then the object is written, then
\* priorityConfig is assigned; the write may fail (writeOk)
mutateProvider(op, id, value) ==
    /\ opsLeft' = opsLeft - 1
    /\ LET c == cachedOrLoad(fileKind, file, configKind, priorityConfig)
           found == findProvider(c, id)
           i == found.index
       IN  IF i = 0
           THEN \* the load threw, there is no providers array, or id is not found
                /\ configKind' = c.configKind
                /\ priorityConfig' = c.config
                /\ lastUpdated' = stampAfterCachedOrLoad
                /\ lastOp' = [NoOp EXCEPT !.op = op, !.ok = FALSE, !.error = found.error,
                                          !.id = id]
                /\ UNCHANGED <<file, fileKind, written>>
           ELSE LET new == setField(c.config, i, op, value) IN
                \E writeOk \in BOOLEAN :
                    /\ configKind' = "loaded"
                    /\ priorityConfig' = new
                    /\ lastUpdated' = [cache |-> newStamp,
                                       file |-> IF writeOk THEN newStamp
                                                ELSE lastUpdated.file]
                    /\ file' = IF writeOk THEN writeFileSync(file, new) ELSE file
                    /\ fileKind' = IF writeOk THEN "ok" ELSE fileKind
                    /\ lastOp' = [NoOp EXCEPT !.op = op, !.ok = writeOk,
                                              !.error = IF writeOk THEN "none" ELSE "write",
                                              !.id = id,
                                              !.entry = new[i], !.old = c.config[i]]
                    /\ written' = IF ~writeOk THEN written
                                  ELSE IF op = "updateProviderPriority"
                                  THEN [id |-> id, priority |-> new[i].priority]
                                  ELSE NoWrite
    /\ UNCHANGED <<envVars, sideVars, adapterVars, cacheVars, now, reqVars>>

updateProviderPriority ==
    /\ opsLeft > 0
    /\ \E id \in RequestedIds, newPriority \in 1..MaxPriority :
        mutateProvider("updateProviderPriority", id, newPriority)

toggleProvider ==
    /\ opsLeft > 0
    /\ \E id \in RequestedIds, enabled \in BOOLEAN :
        mutateProvider("toggleProvider", id, enabled)

reloadPriorityConfig ==
    /\ opsLeft > 0
    /\ opsLeft' = opsLeft - 1
    /\ LET old == StoreState(configKind = "loaded", configKind, priorityConfig)
           s == loadPriorityConfig_of(fileKind, file, "null", <<>>)
       IN  /\ configKind' = s.configKind
           /\ priorityConfig' = s.config
           /\ lastUpdated' = stampAfterReload
           /\ lastOp' = [NoOp EXCEPT !.op = "reloadPriorityConfig", !.ok = s.ok,
                                     !.yield = YieldOf(reloadReturn(old, s)),
                                     !.repeated = (lastOp.op = "reloadPriorityConfig"),
                                     !.prevYield = lastOp.yield]
    /\ UNCHANGED <<file, fileKind, written, envVars, sideVars, adapterVars, cacheVars, now, reqVars>>

loadPriorityConfig ==
    /\ opsLeft > 0
    /\ opsLeft' = opsLeft - 1
    /\ LET s == loadPriorityConfig_of(fileKind, file, configKind, priorityConfig)
       IN  /\ configKind' = s.configKind
           /\ priorityConfig' = s.config
           /\ lastUpdated' = stampAfterLoad
           /\ lastOp' = [NoOp EXCEPT !.op = "loadPriorityConfig", !.ok = s.ok,
                                     !.yield = YieldOf(s)]
    /\ UNCHANGED <<file, fileKind, written, envVars, sideVars, adapterVars, cacheVars, now, reqVars>>

\* priority.json is edited by hand (README: "Edit priority.json to change
\* AI model priorities"): the model of an entry is set or removed, or the
\* file is removed, or replaced by text that is not JSON, or by JSON
\* without a providers array
editFile ==
    /\ opsLeft > 0
    /\ opsLeft' = opsLeft - 1
    /\ \/ /\ fileKind = "ok"
          /\ \E i \in 1..Len(file), m \in Models \cup {NoModel} :
                file' = [file EXCEPT ![i].model = m]
          /\ fileKind' = "ok"
          /\ lastUpdated' = lastUpdated
       \/ /\ fileKind' \in {"missing", "unparsable", "noProviders"}
          /\ file' = <<>>
          /\ lastUpdated' = [lastUpdated EXCEPT !.file = NoStamp]
    /\ lastOp' = [NoOp EXCEPT !.op = "editFile"]
    /\ written' = NoWrite
    /\ UNCHANGED <<priorityConfig, configKind, envVars, sideVars, adapterVars, cacheVars, now,
                   reqVars>>

\* getProviderConfig(providerId): the entry found, or the throw
getProviderConfig ==
    /\ opsLeft > 0
    /\ opsLeft' = opsLeft - 1
    /\ \E id \in RequestedIds :
        LET c == cachedOrLoad(fileKind, file, configKind, priorityConfig)
            found == findProvider(c, id)
        IN  /\ configKind' = c.configKind
            /\ priorityConfig' = c.config
            /\ lastUpdated' = stampAfterCachedOrLoad
            /\ lastOp' = [NoOp EXCEPT !.op = "getProviderConfig", !.ok = found.ok,
                                      !.error = found.error, !.id = id,
                                      !.entry = IF found.ok THEN c.config[found.index]
                                                ELSE NoEntry]
    /\ UNCHANGED <<file, fileKind, written, envVars, sideVars, adapterVars, cacheVars, now,
                   reqVars>>

\* getProviderModel(providerId): provider.model of the entry found, or the
\* throw
getProviderModel ==
    /\ opsLeft > 0
    /\ opsLeft' = opsLeft - 1
    /\ \E id \in RequestedIds :
        LET c == cachedOrLoad(fileKind, file, configKind, priorityConfig)
            found == findProvider(c, id)
        IN  /\ configKind' = c.configKind
            /\ priorityConfig' = c.config
            /\ lastUpdated' = stampAfterCachedOrLoad
            /\ lastOp' = [NoOp EXCEPT !.op = "getProviderModel", !.ok = found.ok,
                                      !.error = found.error, !.id = id,
                                      !.model = IF found.ok THEN c.config[found.index].model
                                                ELSE NoModel]
    /\ UNCHANGED <<file, fileKind, written, envVars, sideVars, adapterVars, cacheVars, now,
                   reqVars>>

\* time passes (observed only by the caching manager)
Tick ==
    /\ cachingManager
    /\ now < MaxTicks * CACHE_TTL
    /\ now' = now + CACHE_TTL
    /\ UNCHANGED <<envVars, sideVars, storeVars, adapterVars, cacheVars, reqVars, logVars>>

\* a second request, running while the observed one is in flight, reaches
\* service.generateResponse of adapter q: initialize and getCurrentModel act
\* on the adapter and on the store
otherRequestAttempts ==
    /\ pc \in {"attempting", "inflight", "backoff"}
    /\ \E q \in Providers :
        LET m == getCurrentModel(q) IN
        /\ hasApiKey(q)
        /\ isInitialized' = [isInitialized EXCEPT ![q] = TRUE]
        /\ priorityConfig' = m.store.config
        /\ configKind' = m.store.configKind
        /\ lastUpdated' = getCurrentModelStamp(q)
        /\ currentModel' = IF m.threw THEN currentModel
                           ELSE [currentModel EXCEPT ![q] = m.model]
    /\ UNCHANGED <<envVars, sideVars, file, fileKind, cacheVars, now, reqVars, logVars>>

\* the store on its own
InitStore == InitFrom({DefaultFile}, {[p \in Providers |-> TRUE]}, {FALSE}, MaxStoreOps)

NextStore ==
    \/ updateProviderPriority
    \/ toggleProvider
    \/ reloadPriorityConfig
    \/ loadPriorityConfig
    \/ editFile

StoreSpec == InitStore /\ [][NextStore]_vars

\* requests against any order of the entries in priority.json
InitOrder == InitFrom(PermutedFiles, {[p \in Providers |-> TRUE]}, {FALSE}, 0)

OrderSpec == InitOrder /\ [][Next]_vars

\* requests served by adapters constructed with any credentials
InitKeys ==
    InitKeyValues /\ InitCore({DefaultFile}, {FALSE}, 0) /\ ClassifyAtRest /\ FrontAtRest
    /\ UnitsAtRest

KeySpec == InitKeys /\ [][Next]_vars

\* ------------------------------------------------------------------------
\* One backend failure on its way out of the adapter
\* ------------------------------------------------------------------------
\* what a backend call can fail of
Causes == {"auth", "rateLimit", "unavailable", "timeout", "other"}

\* the HTTP status code a failure is reported with, as it appears in the
\* error message ("OpenRouter API error: <status> <statusText>"); of the
\* codes, handleError searches for 401, 429 and 503 only
StatusDigits(cause) ==
    IF cause = "auth" THEN {"401"}
    ELSE IF cause = "rateLimit" THEN {"429"}
    ELSE IF cause = "unavailable" THEN {"503"}
    ELSE {}

\* the words of handleError's search that the rest of the message, which
\* the backend chooses, can contain
TextMarkers == {"auth", "rate limit", "service unavailable", "timeout"}

BackendFailures ==
    {f \in [cause : Causes, msg : SUBSET Markers] :
        \E text \in SUBSET TextMarkers :
            /\ Cardinality(text) <= MaxSignals
            /\ f.msg = StatusDigits(f.cause) \cup text}

\* the catch block of makeRequest: this.handleError(error)
makeRequestCatch ==
    /\ failure # NoFailure
    /\ classified = NoError
    /\ classified' = makeRequestError(failure.msg).status
    /\ UNCHANGED <<envVars, storeVars, adapterVars, cacheVars, now, reqVars, logVars,
                   frontVars, abandonVars, unitVars, failure, rethrown>>

\* the catch block of BaseAIService.generateResponse, reached by the error
\* of makeRequest once retryWithBackoff has given up
generateResponseCatch ==
    /\ classified # NoError
    /\ rethrown = NoError
    /\ rethrown' = generateResponseError(makeRequestError(failure.msg)).status
    /\ UNCHANGED <<envVars, storeVars, adapterVars, cacheVars, now, reqVars, logVars,
                   frontVars, abandonVars, unitVars, failure, classified>>

InitClassify ==
    /\ InitKeysFrom({[p \in Providers |-> TRUE]})
    /\ InitCore({DefaultFile}, {FALSE}, 0)
    /\ FrontAtRest
    /\ UnitsAtRest
    /\ failure \in BackendFailures
    /\ classified = NoError
    /\ rethrown = NoError

NextClassify ==
    \/ makeRequestCatch
    \/ generateResponseCatch

ClassifySpec == InitClassify /\ [][NextClassify]_vars

\* ------------------------------------------------------------------------
\* The waits of retryWithBackoff: the one of helpers.js, called by
\* BaseAIService.generateResponse with (maxRetries, 1000), and the older one
\* kept in logger.js, called by the older adapter base with (3, 1000). Both
\* receive the error makeRequest threw, which handleError has classified.
\* ------------------------------------------------------------------------
INITIAL_DELAY == 1000

LEGACY_MAX_RETRIES == 3

\* 0.9 + Math.random() * 0.2, in thousandths
Jitters == {900, 1000, 1099}

RECURSIVE Pow2(_)
Pow2(n) == IF n = 0 THEN 1 ELSE 2 * Pow2(n - 1)

\* helpers.js: initialDelay * Math.pow(2, retries) * (0.9 + Math.random() * 0.2)
helpersDelay(r, jitter) == (INITIAL_DELAY * Pow2(r) * jitter) \div 1000

\* logger.js: baseDelay * Math.pow(2, i), doubled when the message of the
\* error has '503' or 'service unavailable' in it
loggerDelay(i, e) ==
    LET delay == INITIAL_DELAY * Pow2(i)
    IN  IF "503" \in e.msg \/ "service unavailable" \in e.msg THEN delay * 2 ELSE delay

\* the loop ends with error e of its call number i + 1 instead of waiting
givesUp(i, e) ==
    IF retryBuild = "helpers"
    THEN noRetry(e.status) \/ retriesExhausted(i)
    ELSE "401" \in e.msg \/ "auth" \in e.msg \/ i = LEGACY_MAX_RETRIES - 1

\* a call of provider p fails and retryWithBackoff waits before the next one
retryWaits ==
    /\ \E p \in Providers, raw \in RawMessages, jitter \in Jitters :
        LET i == Len(waits[p])
            e == makeRequestError(raw)
        IN  /\ ~givesUp(i, e)
            /\ waits' = [waits EXCEPT ![p] =
                    Append(@, [status |-> e.status,
                               delay |-> IF retryBuild = "helpers"
                                         THEN helpersDelay(i, jitter)
                                         ELSE loggerDelay(i, e)])]
    /\ UNCHANGED <<envVars, storeVars, adapterVars, cacheVars, now, reqVars, logVars,
                   classifyVars, frontVars, abandonVars, retryBuild, clientVars,
                   settingVars>>

InitBackoff ==
    /\ InitKeysFrom({[p \in Providers |-> TRUE]})
    /\ InitCore({DefaultFile}, {FALSE}, 0)
    /\ ClassifyAtRest
    /\ FrontAtRest
    /\ retryBuild \in {"helpers", "logger"}
    /\ waits = [p \in Providers |-> <<>>]
    /\ ClientsConstructible
    /\ NoClientBuilt
    /\ DocumentedSettings

NextBackoff == retryWaits

BackoffSpec == InitBackoff /\ [][NextBackoff]_vars

\* ------------------------------------------------------------------------
\* The HTTP front of POST /api/chat: rateLimiter, chatRequestValidator, the
\* route handler up to its call of generateResponse
\* ------------------------------------------------------------------------
ClockStep == WINDOW_MS \div 2

\* req.body.message: undefined, a value that is not a string, "", blanks
\* only, a short text with blanks around it, a <script> block and nothing
\* else, a text of the greatest length accepted, a longer one
Messages ==
    { NoMessage,
      [type |-> "object", length |-> 0, trimmed |-> 0, script |-> 0],
      [type |-> "string", length |-> 0, trimmed |-> 0, script |-> 0],
      [type |-> "string", length |-> 3, trimmed |-> 0, script |-> 0],
      [type |-> "string", length |-> 4, trimmed |-> 2, script |-> 0],
      [type |-> "string", length |-> 17, trimmed |-> 17, script |-> 17],
      [type |-> "string", length |-> MAX_MESSAGE_LENGTH, trimmed |-> MAX_MESSAGE_LENGTH,
       script |-> 0],
      [type |-> "string", length |-> MAX_MESSAGE_LENGTH + 1,
       trimmed |-> MAX_MESSAGE_LENGTH + 1, script |-> 0] }

\* req.body.temperature and req.body.maxTokens: absent, null, below the
\* legal range, inside it, above it
Temperatures ==
    {Undefined, Null, Num(MIN_TEMPERATURE - 1), Num(MAX_TEMPERATURE), Num(MAX_TEMPERATURE + 1)}

TokenCounts ==
    {Undefined, Null, Num(MIN_TOKENS - 1), Num(MIN_TOKENS), Num(MAX_TOKENS + 1)}

Options == [temperature : Temperatures, maxTokens : TokenCounts]

\* !message
Falsy(m) == m.type = "undefined" \/ (m.type = "string" /\ m.length = 0)

\* String.prototype.trim
trim(m) == [m EXCEPT !.length = m.trimmed]

\* helpers.js sanitizeInput: <script> blocks are removed, the rest is trimmed
sanitizeInput(m) ==
    [m EXCEPT !.length = m.trimmed - m.script, !.trimmed = m.trimmed - m.script,
              !.script = 0]

\* validateChatRequest(message): throws ValidationError (ok = FALSE) or
\* returns { message: message.trim() }
validateChatRequest(m) ==
    IF Falsy(m) \/ m.type # "string" THEN [ok |-> FALSE, message |-> NoMessage]
    ELSE IF m.trimmed = 0 THEN [ok |-> FALSE, message |-> NoMessage]
    ELSE IF m.length > MAX_MESSAGE_LENGTH THEN [ok |-> FALSE, message |-> NoMessage]
    ELSE [ok |-> TRUE, message |-> trim(m)]

\* `v || true` for a flag v: v when it is truthy, true otherwise
orTrue(v) == IF v.kind = "boolean" /\ v.value THEN v.value ELSE TRUE

\* getPrioritySettings() on the settings object of the cached collection
getPrioritySettings ==
    [noTimeoutRestrictions |-> orTrue(settings.noTimeoutRestrictions),
     noTokenLimits |-> orTrue(settings.noTokenLimits),
     allowCompleteResponse |-> orTrue(settings.allowCompleteResponse),
     maxTokens |-> Null]

\* settings.noTokenLimits in AIServiceManager.generateResponse
noTokenLimits == getPrioritySettings.noTokenLimits

\* AIServiceManager.generateResponse: requestOptions
managerRequestOptions(options) ==
    [options EXCEPT !.maxTokens = IF noTokenLimits THEN Null ELSE options.maxTokens]

\* a destructuring default: it replaces undefined only
orDefault(v, default) == IF v.kind = "undefined" THEN Num(default) ELSE v

\* BaseAIService.generateResponse: requestOptions handed to makeRequest
adapterRequestOptions(options) ==
    [temperature |-> orDefault(options.temperature, DEFAULT_TEMPERATURE),
     maxTokens |-> orDefault(options.maxTokens, DEFAULT_MAX_TOKENS)]

\* mutant: the limit is reached one request later
limitReached_oneLater(n) == n > MaxRequests

\* rateLimiter of middleware/index.js: validRequests.length >= maxRequests
limitReached(n) == n >= MaxRequests

\* rateLimiter of the optimized middleware: entry.count > maxRequests
overLimit(count) == count > MaxRequests

\* cleanupRateLimitStore, which runs when now % 300000 < 1000
cleanupRateLimitStore(store) ==
    IF now % 300000 < 1000
    THEN [c \in Clients |->
            IF store[c].set /\ now > store[c].resetTime THEN NoWindow ELSE store[c]]
    ELSE store

answer(c, status) == [NoExchange EXCEPT !.stage = "sent", !.client = c, !.status = status]

pass(c) == [NoExchange EXCEPT !.stage = "validator", !.client = c]

\* a request of client c arrives at the rate limiter; it is the request
\* followed from here on
rateLimiter ==
    /\ arrivals < MaxArrivals
    /\ arrivals' = arrivals + 1
    /\ \E c \in Clients :
        IF limiterBuild = "log"
        THEN LET Recent(timestamp) == now - timestamp < WINDOW_MS
                 validRequests == SelectSeq(requests[c], Recent)
             IN  /\ IF limitReached(Len(validRequests))
                    THEN /\ http' = answer(c, 429)
                         /\ UNCHANGED <<requests, admitted>>
                    ELSE /\ requests' = [requests EXCEPT ![c] = Append(validRequests, now)]
                         /\ admitted' = [admitted EXCEPT ![c] = Append(@, now)]
                         /\ http' = pass(c)
                 /\ UNCHANGED rateLimitStore
        ELSE LET created == IF rateLimitStore[c].set THEN rateLimitStore[c]
                            ELSE [set |-> TRUE, count |-> 0, resetTime |-> now + WINDOW_MS]
                 current == IF now > created.resetTime
                            THEN [created EXCEPT !.count = 0, !.resetTime = now + WINDOW_MS]
                            ELSE created
                 entry == [current EXCEPT !.count = @ + 1]
                 store == [rateLimitStore EXCEPT ![c] = entry]
             IN  /\ IF overLimit(entry.count)
                    THEN /\ http' = answer(c, 429)
                         /\ rateLimitStore' = store
                         /\ UNCHANGED admitted
                    ELSE /\ rateLimitStore' = cleanupRateLimitStore(store)
                         /\ admitted' = [admitted EXCEPT ![c] = Append(@, now)]
                         /\ http' = pass(c)
                 /\ UNCHANGED requests
    /\ UNCHANGED <<envVars, storeVars, adapterVars, cacheVars, now, reqVars, logVars,
                   classifyVars, abandonVars, unitVars, validatorBuild, limiterBuild>>

\* the validator reads req.body and answers 400 or calls next()
chatRequestValidator ==
    /\ http.stage = "validator"
    /\ \E m \in Messages, body \in Options :
        IF validatorBuild = "validateChatRequest"
        THEN LET validated == validateChatRequest(m)
             IN  IF validated.ok
                 THEN \* req.body = validated: the message and nothing else
                      http' = [http EXCEPT !.stage = "handler", !.message = m,
                                           !.handed = validated.message, !.body = NoOptions]
                 ELSE http' = [http EXCEPT !.stage = "sent", !.message = m, !.status = 400]
        ELSE IF Falsy(m) \/ m.type # "string"
             THEN http' = [http EXCEPT !.stage = "sent", !.message = m, !.status = 400]
             ELSE http' = [http EXCEPT !.stage = "handler", !.message = m,
                                       !.handed = sanitizeInput(trim(m)), !.body = body]
    /\ UNCHANGED <<envVars, storeVars, adapterVars, cacheVars, now, reqVars, logVars,
                   classifyVars, abandonVars, unitVars, validatorBuild, limiterBuild, requests,
                   rateLimitStore,
                   admitted, arrivals>>

\* router.post('/chat'): aiManager.generateResponse(message, { temperature,
\* maxTokens }), and the options its provider calls are made with
chatRoute ==
    /\ http.stage = "handler"
    /\ http' = [http EXCEPT !.stage = "called",
                            !.sent = adapterRequestOptions(managerRequestOptions(http.body))]
    /\ UNCHANGED <<envVars, storeVars, adapterVars, cacheVars, now, reqVars, logVars,
                   classifyVars, abandonVars, unitVars, validatorBuild, limiterBuild, requests,
                   rateLimitStore,
                   admitted, arrivals>>

timePasses ==
    /\ now < MaxClockSteps * ClockStep
    /\ now' = now + ClockStep
    /\ UNCHANGED <<envVars, storeVars, adapterVars, cacheVars, reqVars, logVars, sideVars>>

\* the rate limiter of either build, over time
InitLimiter ==
    /\ InitKeysFrom({[p \in Providers |-> TRUE]})
    /\ InitCore({DefaultFile}, {FALSE}, 0)
    /\ ClassifyAtRest
    /\ FrontStarted({"validateChatRequest"}, {"log", "counter"})
    /\ UnitsAtRest

NextLimiter ==
    \/ rateLimiter
    \/ timePasses

LimiterSpec == InitLimiter /\ [][NextLimiter]_vars

\* chat requests through the validator of either build
InitChat ==
    /\ InitKeysFrom({[p \in Providers |-> TRUE]})
    /\ InitCore({DefaultFile}, {FALSE}, 0)
    /\ ClassifyAtRest
    /\ FrontStarted({"validateChatRequest", "inline"}, {"log"})
    /\ BackoffAtRest
    /\ ClientsConstructible
    /\ NoClientBuilt
    /\ settings \in StoredSettings

NextChat ==
    \/ rateLimiter
    \/ chatRequestValidator
    \/ chatRoute

ChatSpec == InitChat /\ [][NextChat]_vars

\* requests served while the store is operated on, by either manager
InitRuntime ==
    InitFrom({DefaultFile}, {[p \in Providers |-> TRUE]}, BOOLEAN, MaxRuntimeOps)

NextRuntime ==
    \/ generateResponse
    \/ AttemptProvider
    \/ makeRequestSucceeds
    \/ makeRequestFails
    \/ backoffElapsed
    \/ otherRequestAttempts
    \/ updateProviderPriority
    \/ toggleProvider
    \/ editFile
    \/ Tick

RuntimeSpec == InitRuntime /\ [][NextRuntime]_vars

\* ------------------------------------------------------------------------
\* Vocabulary of the properties, read off the collection the request read
\* ------------------------------------------------------------------------
Range(seq) == {seq[i] : i \in 1..Len(seq)}

FilePos(id) == IndexOfId(configAtSelect, id)

EntryAtSelect(id) == configAtSelect[FilePos(id)]

\* a is tried before b: lower priority value first, file order among equals
RankedBefore(a, b) ==
    \/ EntryAtSelect(a).priority < EntryAtSelect(b).priority
    \/ /\ EntryAtSelect(a).priority = EntryAtSelect(b).priority
       /\ FilePos(a) < FilePos(b)

EnabledSet == {p \in Providers : FilePos(p) # 0 /\ EntryAtSelect(p).enabled}

CandidateSet == {p \in EnabledSet : apiKey[p]}

RankIn(S, p) == 1 + Cardinality({c \in S : RankedBefore(c, p)})

RECURSIVE SumCalls(_)
SumCalls(S) ==
    IF S = {} THEN 0
    ELSE LET p == CHOOSE x \in S : TRUE IN calls[p] + SumCalls(S \ {p})

Started == pc # "idle"

Exhausted == pc = "failed" /\ thrown.kind # "NoServices"

\* the request has left candidate i behind (in failure)
LeftBehind(i) == idx > i \/ (pc = "failed" /\ idx >= i)

\* the number of calls retryWithBackoff makes at most: while (retries <= maxRetries)
K == maxRetries + 1

C5_Original ==
    \A i \in 1..Len(availableServices) :
        (Started /\ LeftBehind(i) /\ adapterStatus[availableServices[i]] = 429) =>
            calls[availableServices[i]] = K

\* ------------------------------------------------------------------------
\* C5 (amended): a rate-limit failure (429) ends the retry loop at once:
\* the provider gets no further call, no backoff is waited, and the
\* orchestrator moves to the next candidate.
\* ------------------------------------------------------------------------
C5_RateLimitIsNotRetried ==
    \A i \in 1..Len(availableServices) :
        (Started /\ adapterStatus[availableServices[i]] = 429) =>
            /\ LeftBehind(i)
            /\ i < Len(availableServices) => idx = i + 1 \/ calls[availableServices[i + 1]] > 0

C5_Witness ==
    /\ pc = "attempting"
    /\ idx = 2
    /\ adapterStatus[availableServices[1]] = 429
    /\ calls[availableServices[1]] = 1
    /\ K = 3

\* ------------------------------------------------------------------------
\* C6 (as claimed): totalAttempts of a successful result is the number of
\* backend calls made in the request.
\* ------------------------------------------------------------------------
C6_Original ==
    pc = "done" => result.totalAttempts = SumCalls(Providers)

\* ------------------------------------------------------------------------
\* C6 (amended): totalAttempts of a successful result is the number of
\* candidates tried, the successful one included (its position in the
\* candidate list); retries on one provider are not counted.
\* ------------------------------------------------------------------------
C6_TotalAttemptsCountsProviders ==
    pc = "done" =>
        /\ result.totalAttempts = RankIn(CandidateSet, result.provider)
        /\ result.totalAttempts = Cardinality({p \in Providers : calls[p] > 0})

C6_Witness ==
    /\ pc = "done"
    /\ result.totalAttempts = 2
    /\ SumCalls(Providers) = 5

\* ------------------------------------------------------------------------
\* C7: a request whose candidate set is empty fails with the "no services
\* available" error without any provider being attempted or called, and
\* that error is raised in no other case.
\* ------------------------------------------------------------------------
C7_NoCandidateNoCall ==
    Started =>
        /\ CandidateSet = {} =>
              /\ pc = "failed"
              /\ thrown.kind = "NoServices"
              /\ attempted = <<>>
              /\ \A p \in Providers : calls[p] = 0
        /\ thrown.kind = "NoServices" => CandidateSet = {}

C7_Witness ==
    /\ pc = "failed"
    /\ thrown.kind = "NoServices"
    /\ \E p \in EnabledSet : ~apiKey[p]
    /\ \E p \in Providers : apiKey[p] /\ p \notin EnabledSet

\* ------------------------------------------------------------------------
\* C8 (as claimed): when every candidate has failed and the adapter of the
\* last candidate classified its failure as 503, the error raised by
\* generateResponse has status 503.
\* ------------------------------------------------------------------------
C8_Original ==
    (Exhausted /\ adapterStatus[availableServices[Len(availableServices)]] = 503) =>
        thrown.status = 503

\* ------------------------------------------------------------------------
\* C9 (as claimed): the aggregate error has the status of the last provider
\* error as the adapter classified it (401, 429, 503, 408, otherwise 500).
\* ------------------------------------------------------------------------
C9_Original ==
    Exhausted => thrown.status = adapterStatus[attempted[Len(attempted)]]

\* ------------------------------------------------------------------------
\* C10 (as claimed): fallbackUsed is true exactly when the provider that
\* succeeded is not the first provider of the enabled list.
\* ------------------------------------------------------------------------
C10_Original ==
    pc = "done" => (result.fallbackUsed <=> RankIn(EnabledSet, result.provider) > 1)

\* ------------------------------------------------------------------------
\* C10 (amended): fallbackUsed is true exactly when the provider that
\* succeeded is not the first of the candidates (enabled and available);
\* an enabled provider passed over for its credential does not count.
\* ------------------------------------------------------------------------
C10_FallbackUsedAmongCandidates ==
    pc = "done" => (result.fallbackUsed <=> RankIn(CandidateSet, result.provider) > 1)

C10_Witness ==
    /\ pc = "done"
    /\ ~result.fallbackUsed
    /\ RankIn(EnabledSet, result.provider) = 2

\* ------------------------------------------------------------------------
\* Vocabulary of the properties about requests served while the store is
\* operated on
\* ------------------------------------------------------------------------
RECURSIVE SumInFlight(_)
SumInFlight(S) ==
    IF S = {} THEN 0
    ELSE LET p == CHOOSE x \in S : TRUE IN inFlight[p] + SumInFlight(S \ {p})

\* the request read a collection at selection
ReadCollection == configAtSelect # <<>>

\* the request computed its candidate list itself, from the store
ComputedList == ReadCollection /\ listAge = Fresh

\* the outcome of provider p does not let the loop go on to the next one
EndsLoop(p) == outcome[p] \in {Untried, Succeeded, 401}

\* the latest store operation committed, and the request selected after it
SelectedAfterCommit ==
    /\ Started
    /\ lastOp.op \in {"updateProviderPriority", "toggleProvider"}
    /\ lastOp.ok
    /\ opsAtSelect = opsLeft

\* ------------------------------------------------------------------------
\* C11: within one request the provider calls are strictly sequential: at
\* most one backend call is in flight, it is a call to the provider of the
\* current iteration, and a provider has been called only after every
\* candidate before it in the list has failed, none of its calls pending.
\* ------------------------------------------------------------------------
C11_CallsAreSequential ==
    /\ SumInFlight(Providers) <= 1
    /\ \A p \in Providers :
          inFlight[p] > 0 => pc = "inflight" /\ availableServices[idx] = p
    /\ \A i, j \in 1..Len(availableServices) :
          (Started /\ i < j /\ calls[availableServices[j]] > 0) =>
              /\ inFlight[availableServices[i]] = 0
              /\ outcome[availableServices[i]] \notin {Untried, Succeeded}
              /\ calls[availableServices[i]] > 0 =>
                    adapterStatus[availableServices[i]] # NoError

C11_Witness ==
    /\ pc = "inflight"
    /\ idx = 2
    /\ calls[availableServices[1]] = K
    /\ inFlight[availableServices[2]] = 1
    /\ inFlight[availableServices[1]] = 0

\* ------------------------------------------------------------------------
\* C12 (as claimed): the sequence of providers a finished request attempted
\* is a function of the collection in the store at its selection, of the
\* availability set and of the per-provider outcomes: it is the ranking of
\* the candidates, cut after the first provider that succeeded or ended the
\* loop.
\* ------------------------------------------------------------------------
C12_Original ==
    (pc \in {"done", "failed"} /\ ReadCollection) =>
        /\ Range(attempted) =
              {p \in CandidateSet :
                  \A c \in CandidateSet : RankedBefore(c, p) => ~EndsLoop(c)}
        /\ \A i, j \in 1..Len(attempted) :
              i < j => RankedBefore(attempted[i], attempted[j])

\* ------------------------------------------------------------------------
\* C12 (amended): the sequence of providers attempted by a finished request
\* that computed its candidate list at selection is that function of the
\* collection, the availability set and the outcomes; a request of the
\* caching manager that takes a list cached less than CACHE_TTL before
\* attempts the providers of that list, which may stem from an older
\* collection.
\* ------------------------------------------------------------------------
C12_AttemptsAreAFunctionOfTheInputs ==
    (pc \in {"done", "failed"} /\ ReadCollection) =>
        IF ComputedList
        THEN /\ Range(attempted) =
                  {p \in CandidateSet :
                      \A c \in CandidateSet : RankedBefore(c, p) => ~EndsLoop(c)}
             /\ \A i, j \in 1..Len(attempted) :
                  i < j => RankedBefore(attempted[i], attempted[j])
        ELSE /\ cachingManager
             /\ listAge < CACHE_TTL
             /\ \A i \in 1..Len(attempted) : attempted[i] = availableServices[i]

C12_Witness ==
    /\ pc = "done"
    /\ ComputedList
    /\ opsAtSelect < MaxRuntimeOps
    /\ configAtSelect # DefaultFile
    /\ Len(attempted) = 2
    /\ outcome[attempted[1]] = 500

C14_Original ==
    (SelectedAfterCommit /\ lastOp.op = "toggleProvider" /\ ~lastOp.entry.enabled) =>
        lastOp.id \notin Range(attempted)

\* ------------------------------------------------------------------------
\* C14 (amended): a request that begins selection after an update of the
\* store has committed and computes its candidate list reads the updated
\* entry, and never attempts a provider the update disabled; the caching
\* manager answers a selection made less than CACHE_TTL (30 s) after it
\* cached a list with that list, so until the list expires a provider
\* disabled in between is still attempted.
\* ------------------------------------------------------------------------
C14_UpdateSeenOnceCacheExpired ==
    SelectedAfterCommit =>
        IF listAge = Fresh
        THEN /\ ReadCollection
             /\ EntryAtSelect(lastOp.id) = lastOp.entry
             /\ ~lastOp.entry.enabled => lastOp.id \notin Range(attempted)
        ELSE /\ cachingManager
             /\ listAge < CACHE_TTL

C14_Witness ==
    /\ SelectedAfterCommit
    /\ lastOp.op = "toggleProvider"
    /\ ~lastOp.entry.enabled
    /\ cachingManager
    /\ listAge = Fresh
    /\ availableServicesCacheTime = CACHE_TTL
    /\ pc = "done"
    /\ attempted = <<ServiceIds[2]>>
    /\ lastOp.id = ServiceIds[1]

\* ------------------------------------------------------------------------
\* C15 (as claimed): once the store has been reloaded from the file, a
\* request that selects afterwards sends each provider the model the
\* store configures for it.
\* ------------------------------------------------------------------------
C15_Original ==
    (/\ pc = "inflight"
     /\ opsAtSelect = opsLeft
     /\ fileKind = "ok" /\ configKind = "loaded"
     /\ priorityConfig = file /\ configAtSelect = file
     /\ file[IndexOfId(file, availableServices[idx])].model \in Models) =>
        usedModel = file[IndexOfId(file, availableServices[idx])].model

\* ------------------------------------------------------------------------
\* Vocabulary of the properties about the store
\* ------------------------------------------------------------------------
IsLoad == lastOp.op \in {"loadPriorityConfig", "reloadPriorityConfig"}
IsMutation == lastOp.op \in {"updateProviderPriority", "toggleProvider"}

\* priority.json holds a providers array whose entries have every field
WellFormedStore ==
    fileKind = "ok" /\ \A i \in 1..Len(file) : file[i].model # NoModel

\* ------------------------------------------------------------------------
\* C16: round trip: when the latest write to priority.json is that of an
\* updateProviderPriority(id, p) that returned, a loadPriorityConfig or
\* reloadPriorityConfig that follows it returns, and the entry for id in
\* the collection it leaves cached has priority p.
\* ------------------------------------------------------------------------
C16_PriorityRoundTrip ==
    (written # NoWrite /\ IsLoad) =>
        /\ lastOp.ok
        /\ configKind = "loaded"
        /\ priorityConfig[IndexOfId(priorityConfig, written.id)].priority
              = written.priority

C16_Witness ==
    /\ written # NoWrite
    /\ lastOp.op = "reloadPriorityConfig"
    /\ written.priority #
          DefaultFile[IndexOfId(DefaultFile, written.id)].priority
    /\ priorityConfig[IndexOfId(priorityConfig, written.id)].priority
          = written.priority

\* ------------------------------------------------------------------------
\* C17 (as claimed): when the write of an updateProviderPriority or
\* toggleProvider call fails, the in-memory collection does not show the
\* new value of the entry.
\* ------------------------------------------------------------------------
C17_Original ==
    (IsMutation /\ ~lastOp.ok /\ lastOp.entry # NoEntry /\ lastOp.entry # lastOp.old) =>
        \/ configKind # "loaded"
        \/ priorityConfig[IndexOfId(priorityConfig, lastOp.id)] # lastOp.entry

\* ------------------------------------------------------------------------
\* C18: two consecutive reloadPriorityConfig calls, with no other store
\* operation and no edit of the file in between, return the same ordered
\* list of enabled provider ids (or both throw).
\* ------------------------------------------------------------------------
C18_ReloadIsIdempotent ==
    (lastOp.op = "reloadPriorityConfig" /\ lastOp.repeated) =>
        lastOp.yield = lastOp.prevYield

C18_Witness ==
    /\ lastOp.op = "reloadPriorityConfig"
    /\ lastOp.repeated
    /\ lastOp.ok
    /\ Len(lastOp.yield) < NumProviders
    /\ opsLeft = 0

\* ------------------------------------------------------------------------
\* C19 (as claimed): loadPriorityConfig and reloadPriorityConfig return
\* exactly when priority.json exists, holds a providers array and every
\* entry has its fields.
\* ------------------------------------------------------------------------
C19_Original ==
    IsLoad => (lastOp.ok <=> WellFormedStore)

\* ------------------------------------------------------------------------
\* C19 (amended): loadPriorityConfig and reloadPriorityConfig throw exactly
\* when priority.json is missing, is not JSON or holds no providers array,
\* and otherwise return the parsed collection as it is: the entries are
\* not inspected, so an entry without one of its fields is accepted.
\* ------------------------------------------------------------------------
C19_LoadChecksTheProvidersArrayOnly ==
    IsLoad =>
        /\ lastOp.ok <=> fileKind = "ok"
        /\ lastOp.ok => configKind = "loaded" /\ priorityConfig = file

C19_Witness ==
    /\ lastOp.op = "loadPriorityConfig"
    /\ lastOp.ok
    /\ ~WellFormedStore
    /\ \E i \in 1..Len(priorityConfig) : priorityConfig[i].model = NoModel

\* ------------------------------------------------------------------------
\* C20 (as claimed): a request that begins selection when no collection is
\* cached and priority.json cannot be loaded fails without a backend call.
\* ------------------------------------------------------------------------
C20_Original ==
    (Started /\ kindAtSelect = "unloadable") =>
        /\ pc # "done"
        /\ \A p \in Providers : calls[p] = 0

C22_Original ==
    \A p \in Providers :
        (Started /\ p \in Range(availableServices)) =>
            /\ keyValue[p].set
            /\ keyValue[p].prefix
            /\ keyValue[p].length > MinKeyLength

\* the status the failure mapping gives a failure of the given cause
KindOf(cause) ==
    IF cause = "auth" THEN 401
    ELSE IF cause = "rateLimit" THEN 429
    ELSE IF cause = "unavailable" THEN 503
    ELSE IF cause = "timeout" THEN 408
    ELSE 500

\* ------------------------------------------------------------------------
\* C23 (as claimed): a backend failure leaves makeRequest classified by
\* what it was: authentication failure 401, rate limit 429, backend down
\* 503, network failure or timeout 408, anything else 500.
\* ------------------------------------------------------------------------
C23_Original ==
    classified # NoError => classified = KindOf(failure.cause)

\* the validator has read the request that is followed
Validated == http.stage \in {"handler", "called"} \/ (http.stage = "sent" /\ http.status # 429)

\* a message that is missing, not a string, empty after trimming, or too long
InvalidMessage(m) ==
    m.type # "string" \/ m.trimmed = 0 \/ m.length > MAX_MESSAGE_LENGTH

\* ------------------------------------------------------------------------
\* C24 (as claimed): a chat request whose message is missing, not a string,
\* empty after trimming or longer than 50000 characters is answered with
\* status 400 by the validator and is not passed on to the route handler,
\* so generateResponse is not called for it.
\* ------------------------------------------------------------------------
C24_Original ==
    (Validated /\ InvalidMessage(http.message)) =>
        http.status = 400 /\ http.stage = "sent"

InRange(v, low, high) == v.kind = "number" /\ low <= v.value /\ v.value <= high

\* ------------------------------------------------------------------------
\* C25 (as claimed): the options a provider call is made with are clamped:
\* the temperature lies in [MIN_TEMPERATURE, MAX_TEMPERATURE] and maxTokens
\* is a number in [MIN_TOKENS, MAX_TOKENS], whatever the caller supplied.
\* ------------------------------------------------------------------------
C25_Original ==
    http.stage = "called" =>
        /\ InRange(http.sent.temperature, MIN_TEMPERATURE, MAX_TEMPERATURE)
        /\ InRange(http.sent.maxTokens, MIN_TOKENS, MAX_TOKENS)

\* the requests of client c admitted at or after time a and before a + WINDOW_MS
AdmittedFrom(c, a) ==
    {i \in DOMAIN admitted[c] : a <= admitted[c][i] /\ admitted[c][i] < a + WINDOW_MS}

\* the requests of client c admitted in the window its counter is counting
AdmittedInWindow(c) ==
    {i \in DOMAIN admitted[c] : admitted[c][i] >= rateLimitStore[c].resetTime - WINDOW_MS}

\* ------------------------------------------------------------------------
\* C27 (as claimed): for each client the rate limiter admits at most
\* maxRequests requests in any interval of windowMs milliseconds, and a
\* request answered 429 is not passed to the next handler.
\* ------------------------------------------------------------------------
C27_Original ==
    /\ \A c \in Clients : \A i \in DOMAIN admitted[c] :
            Cardinality(AdmittedFrom(c, admitted[c][i])) <= MaxRequests
    /\ http.status = 429 => http.stage = "sent"

\* ------------------------------------------------------------------------
\* C27 (amended): the limiter that keeps a log of timestamps admits at most
\* maxRequests requests of a client in any span shorter than windowMs; the
\* limiter that keeps a counter admits at most maxRequests requests of a
\* client in the window it is counting, hence at most twice maxRequests in
\* a span of windowMs; a request answered 429 is not passed on.
\* ------------------------------------------------------------------------
C27_AdmissionsBounded ==
    /\ limiterBuild = "log" =>
            \A c \in Clients : \A i \in DOMAIN admitted[c] :
                Cardinality(AdmittedFrom(c, admitted[c][i])) <= MaxRequests
    /\ limiterBuild = "counter" =>
            \A c \in Clients :
                /\ rateLimitStore[c].set =>
                        /\ Cardinality(AdmittedInWindow(c)) <= MaxRequests
                        /\ rateLimitStore[c].count >= Cardinality(AdmittedInWindow(c))
                /\ \A i \in DOMAIN admitted[c] :
                        Cardinality(AdmittedFrom(c, admitted[c][i])) <= 2 * MaxRequests
    /\ http.status = 429 => http.stage = "sent"

\* a client that had maxRequests requests admitted is answered 429 while they
\* are still recent, some time after the first of them
C27_Witness ==
    /\ limiterBuild = "log"
    /\ http.status = 429
    /\ Len(admitted[http.client]) = MaxRequests
    /\ admitted[http.client][1] < now
    /\ now - admitted[http.client][1] < WINDOW_MS

\* ------------------------------------------------------------------------
\* C28 (as claimed): the status the orchestrator observes for a provider
\* that failed equals the status the adapter assigned to the backend
\* failure; classifying the classified error again changes no status.
\* ------------------------------------------------------------------------
C28_Original ==
    \A p \in Providers :
        (outcome[p] \notin {Untried, Succeeded} /\ adapterStatus[p] # NoError) =>
            outcome[p] = adapterStatus[p]

\* ------------------------------------------------------------------------
\* C29 (as claimed): for one provider in one request the number of backend
\* calls never exceeds the maxRetries passed to retryWithBackoff.
\* ------------------------------------------------------------------------
C29_Original == \A p \in Providers : calls[p] <= maxRetries

\* ------------------------------------------------------------------------
\* C29 (amended): for one provider in one request the number of backend
\* calls never exceeds maxRetries + 1: the first call and maxRetries
\* retries.
\* ------------------------------------------------------------------------
C29_CallsAtMostRetriesPlusOne == \A p \in Providers : calls[p] <= maxRetries + 1

\* a provider has failed after its first call and maxRetries retries
C29_Witness ==
    \E p \in Providers :
        /\ calls[p] = maxRetries + 1
        /\ retries = maxRetries
        /\ outcome[p] \notin {Untried, Succeeded}

\* ------------------------------------------------------------------------
\* A request whose caller goes away (routes/api.js, POST /chat): the socket
\* closes while aiManager.generateResponse is awaited. The route registers
\* no listener for it and hands no signal to generateResponse, so the event
\* changes nothing the request reads.
\* ------------------------------------------------------------------------
clientDisconnects ==
    /\ pc \in {"attempting", "inflight", "backoff"}
    /\ ~abandoned
    /\ abandoned' = TRUE
    /\ callsAtAbandon' = SumCalls(Providers)
    /\ UNCHANGED <<envVars, storeVars, adapterVars, cacheVars, now, reqVars, logVars,
                   classifyVars, frontVars, unitVars>>

InitAbandon == InitFrom({DefaultFile}, {[p \in Providers |-> TRUE]}, {FALSE}, 0)

NextAbandon ==
    \/ generateResponse
    \/ AttemptProvider
    \/ makeRequestSucceeds
    \/ makeRequestFails
    \/ backoffElapsed
    \/ clientDisconnects

AbandonSpec == InitAbandon /\ [][NextAbandon]_vars

\* ------------------------------------------------------------------------
\* C26 (as claimed): a request abandoned by its caller starts no backend
\* call, retry or fallback, after the one in flight when it was abandoned.
\* ------------------------------------------------------------------------
C26_Original == abandoned => SumCalls(Providers) <= callsAtAbandon

\* ------------------------------------------------------------------------
\* Requests whose steps are taken: the for-loop goes on to its next
\* iteration, every backend call returns or fails, and the timer of every
\* backoff delay fires. When the next request is made is up to the caller.
\* ------------------------------------------------------------------------
Fairness ==
    /\ WF_vars(AttemptProvider)
    /\ WF_vars(makeRequestSucceeds \/ makeRequestFails)
    /\ WF_vars(backoffElapsed)

LiveSpec == Init /\ [][Next]_vars /\ Fairness

InProgress == pc \in {"attempting", "inflight", "backoff"}

Ended == pc \in {"done", "failed"}

\* ------------------------------------------------------------------------
\* C30: provided each backend call returns or fails, every generateResponse
\* call ends, with a result or with a terminal error, and the backend calls
\* of a request number at most its candidates times the calls one provider
\* can get (maxRetries + 1): one retry loop per provider, no outer loop.
\* ------------------------------------------------------------------------
C30_RequestsEndWithinTheirBudget ==
    /\ [](SumCalls(Providers) <= Len(availableServices) * K)
    /\ InProgress ~> Ended

\* a request has ended in failure after every candidate got all its calls
C30_Witness ==
    /\ pc = "failed"
    /\ Len(availableServices) = NumProviders
    /\ SumCalls(Providers) = NumProviders * K

\* ------------------------------------------------------------------------
\* C31 (as claimed): the wait before retry i on a provider is the base
\* delay times 2^i, so that it doubles with each retry, and for the same i
\* the wait after a 503 is longer than the wait after any other failure
\* that is retried.
\* ------------------------------------------------------------------------
C31_Original ==
    /\ \A p \in Providers : \A i \in DOMAIN waits[p] :
            /\ waits[p][i].status # 503 => waits[p][i].delay = INITIAL_DELAY * Pow2(i - 1)
            /\ (i > 1 /\ waits[p][i].status = waits[p][i - 1].status) =>
                    waits[p][i].delay = 2 * waits[p][i - 1].delay
    /\ \A p, q \in Providers : \A i \in DOMAIN waits[p] \cap DOMAIN waits[q] :
            (waits[p][i].status = 503 /\ waits[q][i].status # 503) =>
                waits[p][i].delay > waits[q][i].delay

\* ------------------------------------------------------------------------
\* Requests in a process where the client of some adapters cannot be
\* constructed: createClient throws on every initialize of such an adapter.
\* ------------------------------------------------------------------------
InitClients ==
    /\ InitKeysFrom({[p \in Providers |-> TRUE]})
    /\ InitCore(WellFormedFiles, {FALSE}, 0)
    /\ ClassifyAtRest
    /\ FrontAtRest
    /\ BackoffAtRest
    /\ NoClientBuilt
    /\ DocumentedSettings
    /\ createClientThrows \in [Providers -> BOOLEAN]

ClientSpec == InitClients /\ [][Next]_vars

\* ------------------------------------------------------------------------
\* C32: when the initialization of a candidate's adapter fails, no backend
\* call is made to that provider, nothing is retried on it, and the request
\* goes on with the next candidate in priority order (it ends in failure
\* only when there is none).
\* ------------------------------------------------------------------------
C32_InitFailureSkipsToNextCandidate ==
    \A i \in DOMAIN attempted :
        createClientThrows[attempted[i]] =>
            /\ calls[attempted[i]] = 0
            /\ inFlight[attempted[i]] = 0
            /\ ~isInitialized[attempted[i]]
            /\ outcome[attempted[i]] = Observed(NoError)
            /\ pc # "backoff" \/ idx # i
            /\ i < Len(availableServices) =>
                    /\ idx > i
                    /\ Len(attempted) > i => attempted[i + 1] = availableServices[i + 1]
            /\ i = Len(availableServices) => pc = "failed"

\* the first candidate could not be initialized and the second was called
C32_Witness ==
    /\ Len(attempted) = 2
    /\ createClientThrows[attempted[1]]
    /\ ~createClientThrows[attempted[2]]
    /\ calls[attempted[2]] > 0

\* ------------------------------------------------------------------------
\* Callers of one adapter's generateResponse (BaseAIService.js:107-110) and
\* its initialize (85-101). `await this.createClient()` constructs the client
\* at once and gives way to other callers before isInitialized is set.
\* ------------------------------------------------------------------------
\* caller r calls generateResponse of adapter p, up to the await in initialize
initialize ==
    \E r \in Callers, p \in Providers :
        /\ caller[r] = NoCall
        /\ IF isInitialized[p]
           THEN /\ caller' = [caller EXCEPT ![r] = [p |-> p, at |-> "ready"]]
                /\ UNCHANGED <<client, built>>
           ELSE IF ~hasApiKey(p) \/ createClientThrows[p]
           THEN /\ caller' = [caller EXCEPT ![r] = [p |-> p, at |-> "threw"]]
                /\ UNCHANGED <<client, built>>
           ELSE \* createClient: this.client = new ...
                /\ built' = [built EXCEPT ![p] = @ + 1]
                /\ client' = [client EXCEPT ![p] = built[p] + 1]
                /\ caller' = [caller EXCEPT ![r] = [p |-> p, at |-> "creating"]]
        /\ UNCHANGED <<envVars, storeVars, adapterVars, cacheVars, now, reqVars, logVars,
                       classifyVars, frontVars, abandonVars, backoffVars, settingVars,
                       createClientThrows>>

\* the await of createClient is over: this.isInitialized = true
createClientReturns ==
    \E r \in Callers :
        /\ caller[r].at = "creating"
        /\ isInitialized' = [isInitialized EXCEPT ![caller[r].p] = TRUE]
        /\ caller' = [caller EXCEPT ![r].at = "ready"]
        /\ UNCHANGED <<envVars, storeVars, currentModel, cacheVars, now, reqVars, logVars,
                       classifyVars, frontVars, abandonVars, backoffVars, settingVars,
                       createClientThrows, client, built>>

\* the call of caller r is over
callReturns ==
    \E r \in Callers :
        /\ caller[r].at \in {"ready", "threw"}
        /\ caller' = [caller EXCEPT ![r] = NoCall]
        /\ UNCHANGED <<envVars, storeVars, adapterVars, cacheVars, now, reqVars, logVars,
                       classifyVars, frontVars, abandonVars, backoffVars, settingVars,
                       createClientThrows, client, built>>

InitHandles ==
    /\ InitKeysFrom([Providers -> BOOLEAN])
    /\ InitCore({DefaultFile}, {FALSE}, 0)
    /\ ClassifyAtRest
    /\ FrontAtRest
    /\ BackoffAtRest
    /\ NoClientBuilt
    /\ DocumentedSettings
    /\ createClientThrows \in [Providers -> BOOLEAN]

NextHandles ==
    \/ initialize
    \/ createClientReturns
    \/ callReturns

HandleSpec == InitHandles /\ [][NextHandles]_vars

\* ------------------------------------------------------------------------
\* C33 (as claimed): the client of each adapter is constructed at most once
\* in the process and never replaced, also when several callers make the
\* first use of the adapter at the same time.
\* ------------------------------------------------------------------------
C33_Original == \A p \in Providers : built[p] <= 1

\* ------------------------------------------------------------------------
\* The store with its readers getProviderConfig and getProviderModel
\* ------------------------------------------------------------------------
InitLookup == InitFrom({DefaultFile}, {[p \in Providers |-> TRUE]}, {FALSE}, MaxLookupOps)

NextLookup ==
    \/ updateProviderPriority
    \/ toggleProvider
    \/ reloadPriorityConfig
    \/ editFile
    \/ getProviderConfig
    \/ getProviderModel

LookupSpec == InitLookup /\ [][NextLookup]_vars

Lookups == {"getProviderConfig", "getProviderModel"}

\* the latest step was a lookup
LookedUp == lastOp'.op \in Lookups /\ opsLeft' = opsLeft - 1

\* ------------------------------------------------------------------------
\* C34: with a collection in the store, getProviderModel and
\* getProviderConfig fail with a 'not found' error for a provider id that
\* no entry has, and return the model / the entry of that provider
\* otherwise; neither changes the collection or the file.
\* ------------------------------------------------------------------------
C34_LookupFindsOrFails ==
    /\ []((lastOp.op \in Lookups /\ configKind = "loaded") =>
            IF \E i \in DOMAIN priorityConfig : priorityConfig[i].id = lastOp.id
            THEN /\ lastOp.ok
                 /\ \E i \in DOMAIN priorityConfig :
                        /\ priorityConfig[i].id = lastOp.id
                        /\ lastOp.op = "getProviderConfig" => lastOp.entry = priorityConfig[i]
                        /\ lastOp.op = "getProviderModel" => lastOp.model = priorityConfig[i].model
            ELSE ~lastOp.ok /\ lastOp.error = "notFound")
    /\ [][LookedUp =>
            /\ file' = file /\ fileKind' = fileKind
            /\ lastUpdated'.file = lastUpdated.file
            /\ configKind # "null" =>
                    /\ priorityConfig' = priorityConfig
                    /\ configKind' = configKind
                    /\ lastUpdated' = lastUpdated
            /\ (configKind = "null" /\ configKind' = "loaded") => priorityConfig' = file]_vars

\* a lookup of an id that is not listed has failed, after an update changed
\* the collection
C34_Witness ==
    /\ lastOp.op = "getProviderModel"
    /\ lastOp.id = AbsentId
    /\ lastOp.error = "notFound"
    /\ priorityConfig # DefaultFile

\* ------------------------------------------------------------------------
\* C35: updateProviderPriority changes only the priority of the entry with
\* the given id, and toggleProvider only its enabled flag: the ids of the
\* collection, in their order and without duplicates, and every field of
\* every other entry are what they were, and what is written to the file
\* is the whole collection.
\* ------------------------------------------------------------------------
Mutations == {"updateProviderPriority", "toggleProvider"}

\* the latest step was an update or a toggle
Mutated == lastOp'.op \in Mutations /\ opsLeft' = opsLeft - 1

\* the collection an operation starts from: the cached one, or the file's
\* when nothing is cached yet
CollectionBefore == IF configKind = "null" THEN file ELSE priorityConfig

IdsOf(config) == [i \in DOMAIN config |-> config[i].id]

C35_MutationChangesOneField ==
    /\ [](configKind = "loaded" =>
            /\ IdsOf(priorityConfig) = IdsOf(DefaultFile)
            /\ \A i, j \in DOMAIN priorityConfig :
                    priorityConfig[i].id = priorityConfig[j].id => i = j)
    /\ [][(Mutated /\ configKind' = "loaded") =>
            /\ IdsOf(priorityConfig') = IdsOf(CollectionBefore)
            /\ \A i \in DOMAIN priorityConfig' :
                    IF CollectionBefore[i].id # lastOp'.id
                    THEN priorityConfig'[i] = CollectionBefore[i]
                    ELSE IF lastOp'.op = "updateProviderPriority"
                    THEN priorityConfig'[i] =
                            [CollectionBefore[i] EXCEPT !.priority = priorityConfig'[i].priority]
                    ELSE priorityConfig'[i] =
                            [CollectionBefore[i] EXCEPT !.enabled = priorityConfig'[i].enabled]
            /\ file' # file => file' = priorityConfig']_vars

\* a toggle has changed the flag of its entry after an update had changed a
\* priority
C35_Witness ==
    /\ lastOp.op = "toggleProvider"
    /\ lastOp.ok
    /\ lastOp.entry.enabled # lastOp.old.enabled
    /\ \E i \in DOMAIN priorityConfig : priorityConfig[i].priority # DefaultFile[i].priority

\* ------------------------------------------------------------------------
\* C36: updateProviderPriority and toggleProvider called with an id that no
\* entry has fail, write nothing to priority.json and leave the collection
\* in memory, its lastUpdated included, as it was; when nothing was cached
\* the collection they leave is the one read from the file, unmodified.
\* ------------------------------------------------------------------------
C36_AbsentIdChangesNothing ==
    [][(Mutated /\ lastOp'.id = AbsentId) =>
        /\ ~lastOp'.ok
        /\ lastOp'.error # "none"
        /\ file' = file /\ fileKind' = fileKind /\ written' = written
        /\ lastUpdated'.file = lastUpdated.file
        /\ configKind # "null" =>
                /\ priorityConfig' = priorityConfig
                /\ configKind' = configKind
                /\ lastUpdated' = lastUpdated
        /\ (configKind = "null" /\ configKind' = "loaded") =>
                /\ priorityConfig' = file
                /\ lastUpdated'.cache = lastUpdated.file]_vars

\* an update with an id that is not listed has failed on a collection that
\* an earlier operation had changed
C36_Witness ==
    /\ lastOp.op = "updateProviderPriority"
    /\ lastOp.id = AbsentId
    /\ lastOp.error = "notFound"
    /\ configKind = "loaded"
    /\ priorityConfig # DefaultFile

\* ------------------------------------------------------------------------
\* C37: a load that failed validation never leaves its object in the cache:
\* priorityConfig is never an object without a providers array, and no
\* later reader operates on such an object.
\* ------------------------------------------------------------------------
C37_Original ==
    /\ configKind # "malformed"
    /\ lastOp.op \in Lookups => lastOp.error # "type"

\* ------------------------------------------------------------------------
\* C38 (as claimed): getPrioritySettings returns the flags that the settings
\* of the store specify, true being only the default of an absent flag, so
\* that with noTokenLimits stored as false the maxTokens of a chat request
\* is the maxTokens of its provider call.
\* ------------------------------------------------------------------------
C38_Original ==
    (http.stage = "called" /\ settings.noTokenLimits = Flag(FALSE)) =>
        /\ ~getPrioritySettings.noTokenLimits
        /\ http.body.maxTokens.kind = "number" => http.sent.maxTokens = http.body.maxTokens

====
